---------------------------- MODULE Spec2Model ----------------------------
(***************************************************************************)
(* async-shared-timeout: a shared, resettable timeout.                     *)
(*                                                                         *)
(* The model follows src/src/lib.rs.  Time is counted in clock ticks since *)
(* the epoch captured by Timeout::new; `now` is what runtime.now() minus   *)
(* the epoch yields.  Every read or write of shared state (a clock read,   *)
(* an atomic load, an atomic store) is one step, so the steps of reset(),  *)
(* set_default_timeout() and wait() running on different threads          *)
(* interleave freely.                                                      *)
(***************************************************************************)
EXTENDS Integers, FiniteSets, Sequences, TLC

\* ------------------------------------------------------------------ bounds
\* Last tick the model's clock reaches.
MaxTime == 3
\* Largest default timeout (in ticks) handed to new()/set_default_timeout().
MaxDefault == 2
\* Largest value of the (scaled-down) unsigned atomic word.
U64Max == 15

\* Largest number of bytes one inner read or write transfers, and largest
\* number of bytes already in a read buffer when it is handed to poll_read.
MaxBytes == 1

\* Cap on the re-arms a wait() is counted to have in hand.
MaxCredit == 2

\* A short default and a long one.
Durations == {1, MaxDefault}
Resetters == {"r1", "r2"}
\* Callers of wait(); the second takes part only where InitWith admits it.
Waiters == {"w1", "w2"}
\* Option<T>: None is the empty set, Some(x) the singleton {x}.
None == {}
Some(x) == {x}
Get(o) == CHOOSE x \in o : TRUE

VARIABLES
    now,                    \* runtime.now() - epoch
    timeout_from_epoch_ns,  \* Timeout.timeout_from_epoch_ns (AtomicU64)
    default_timeout,        \* Timeout.default_timeout (AtomicU64)
    r_pc, r_elapsed, r_default,     \* a reset() call in progress, per caller
    w_pc,                   \* where a wait() call stands, per caller
    w_elapsed, w_target,    \* elapsed_nanos / target_nanos of timeout_duration()
    w_timeout,              \* the Option<Duration> timeout_duration() returned
    sleep,                  \* the wait's Sleep future
    \* history (never read by the modelled code)
    everReset,              \* some reset() has stored a deadline
    defaultChanged,         \* set_default_timeout() has been called
    lastD,                  \* the default behind the stored deadline
    w_nsleeps,              \* create_sleep() calls of this wait()
    w_stored,               \* the stored deadline was written during this wait()
    w_over,                 \* largest sum written during this wait() that
                            \* exceeds the stored deadline, if any
    w_credit,               \* 1 + reset() stores that changed the deadline
                            \* during this wait() - re-arms of its sleep,
                            \* counted up to MaxCredit and down to one
                            \* below zero
    poll                    \* the last poll of a Wrapper: what the inner
                            \* object answered and how often reset() was called

shared == <<timeout_from_epoch_ns, default_timeout>>
rvars == <<r_pc, r_elapsed, r_default>>
wvars == <<w_pc, w_elapsed, w_target, w_timeout, sleep>>
ghost == <<everReset, defaultChanged, lastD, poll>>
wghost == <<w_nsleeps, w_stored, w_over, w_credit>>
vars == <<now, shared, rvars, wvars, ghost, wghost>>

\* ----------------------------------------------------------------- helpers
\* The largest sum any reset() stored while wait() w was in flight.
MaxSum(w) ==
    IF w_over[w] # None THEN w_over[w]
    ELSE IF w_stored[w] /\ w_pc[w] \notin {"absent", "idle", "done"}
         THEN Some(timeout_from_epoch_ns)
         ELSE None

InFlight(w) == w_pc[w] \notin {"absent", "idle", "done"}

\* u64::try_from(nanos): Some(nanos) when the count fits the word; on None
\* the caller's unwrap() panics.
U64TryFrom(x) == IF x <= U64Max THEN Some(x) ELSE None

\* `a + b` on u64: the exact sum when it fits; otherwise the build decides
\* (overflow checks on: panic; off: two's complement wrap).
AddU64(a, b) ==
    IF a + b <= U64Max
    THEN {[panic |-> FALSE, value |-> a + b]}
    ELSE {[panic |-> FALSE, value |-> (a + b) % (U64Max + 1)],
          [panic |-> TRUE, value |-> 0]}

\* Variant: the comparison is inclusive, so a deadline just reached still
\* counts as pending.
TimeoutDurationInclusive(elapsed_nanos, target_nanos) ==
    IF elapsed_nanos <= target_nanos
    THEN Some(target_nanos - elapsed_nanos)
    ELSE None

\* Variant: the comparison is the wrong way round, so a passed deadline
\* counts as pending and a pending one as passed.
TimeoutDurationSwapped(elapsed_nanos, target_nanos) ==
    IF target_nanos < elapsed_nanos
    THEN Some(elapsed_nanos - target_nanos)
    ELSE None

\* Variant: a pending deadline is polled for, one tick at a time.
TimeoutDurationPolling(elapsed_nanos, target_nanos) ==
    IF elapsed_nanos < target_nanos THEN Some(1) ELSE None

\* Timeout::timeout_duration on a clock reading and a loaded target:
\* Some(target - elapsed) when elapsed < target, else None.
TimeoutDuration(elapsed_nanos, target_nanos) ==
    IF elapsed_nanos < target_nanos
    THEN Some(target_nanos - elapsed_nanos)
    ELSE None

\* The Sleep future: no handle yet, armed to complete at `at`, or completed.
NoSleep == [state |-> "none", at |-> 0]
Fired == [state |-> "fired", at |-> 0]
\* Runtime::create_sleep(timeout) / Sleep::reset(timeout): the sleep
\* completes `timeout` after the moment of the call.
Armed(timeout) == [state |-> "armed", at |-> now + timeout]

\* Variant: a pending sleep also completes when the shared deadline passes.
SleepReadyRetargeted(w) ==
    \/ now >= sleep[w].at
    \/ now >= timeout_from_epoch_ns

\* Variant: the sleep is Ready only at the very instant of its deadline; a
\* task that is not run then has missed its wake-up.
SleepReadyAtInstantOnly(w) == now = sleep[w].at

\* Sleep::poll_sleep is Ready once the clock has reached the sleep's own
\* deadline; nothing but Sleep::reset moves that deadline.
SleepReady(w) == now >= sleep[w].at

\* Variant: once its sleep has completed wait() starts over from its first
\* check and creates a fresh sleep for what remains.
AfterSleepRecreate == "check0_load"

\* Variant: wait() returns as soon as its sleep has completed.
AfterSleepNoRecheck == "done"

\* Where wait() goes once its sleep has completed: back to the loop head,
\* which recomputes timeout_duration() from the live deadline.
AfterSleep == "check_now"

\* No Wrapper has been polled yet.
NoPoll == [op |-> "none", res |-> "pending", filled |-> 0, n |-> 0,
           resets |-> 0, seq |-> 0]

\* ------------------------------------------------------------------- Init
\* Variant: the deadline starts at the epoch instead of one default after it.
NewUnarmed(d) ==
    /\ now = 0
    /\ timeout_from_epoch_ns = 0
    /\ default_timeout = d

\* Timeout::new(runtime, default_timeout): epoch = now, both atomics hold
\* the default.
New(d) ==
    /\ now = 0
    /\ timeout_from_epoch_ns = d
    /\ default_timeout = d

\* The state after Timeout::new(runtime, d) for some d of D, shared with
\* the waiters W; nobody has called anything yet.
InitWith(D, W) ==
    /\ lastD \in D
    /\ New(lastD)
    /\ r_pc = [r \in Resetters |-> "idle"]
    /\ r_elapsed = [r \in Resetters |-> 0]
    /\ r_default = [r \in Resetters |-> 0]
    /\ w_pc = [w \in Waiters |-> IF w \in W THEN "idle" ELSE "absent"]
    /\ w_elapsed = [w \in Waiters |-> 0]
    /\ w_target = [w \in Waiters |-> 0]
    /\ w_timeout = [w \in Waiters |-> None]
    /\ sleep = [w \in Waiters |-> NoSleep]
    /\ everReset = FALSE
    /\ defaultChanged = FALSE
    /\ w_nsleeps = [w \in Waiters |-> 0]
    /\ w_stored = [w \in Waiters |-> FALSE]
    /\ w_over = [w \in Waiters |-> None]
    /\ w_credit = [w \in Waiters |-> 1]
    /\ poll = NoPoll

Init == InitWith(Durations, {"w1"})

\* ------------------------------------------------------------------ clock
Tick ==
    /\ now < MaxTime
    /\ now' = now + 1
    /\ UNCHANGED <<shared, rvars, wvars, ghost, wghost>>

\* ---------------------------------------------------------------- reset()
\* Callers of reset() are interchangeable: the second one is only told apart
\* from the first when their calls overlap.
MayCall(r) == r = "r1" \/ r_pc["r1"] # "idle"

\* reset() is entered: self.elapsed(), the clock read, left operand of the
\* sum.
ResetBegin(r) ==
    LET e == U64TryFrom(now) IN
        /\ r_elapsed' = [r_elapsed EXCEPT ![r] = IF e = None THEN @ ELSE Get(e)]
        /\ r_pc' = [r_pc EXCEPT ![r] = IF e = None THEN "panicked" ELSE "load"]

\* reset() called directly.
ResetElapsed(r) ==
    /\ r_pc[r] = "idle"
    /\ MayCall(r)
    /\ ResetBegin(r)
    /\ UNCHANGED <<now, shared, r_default, wvars, ghost, wghost>>

\* self.default_timeout.load(Acquire), right operand of the sum.
ResetLoadDefault(r) ==
    /\ r_pc[r] = "load"
    /\ r_default' = [r_default EXCEPT ![r] = default_timeout]
    /\ r_pc' = [r_pc EXCEPT ![r] = "store"]
    /\ UNCHANGED <<now, shared, r_elapsed, wvars, ghost, wghost>>

\* Variant: the store keeps the later of the two (a fetch_max).
StoreMax(old, sum) == IF sum >= old THEN sum ELSE old

\* Variant: the sum is added onto the previous deadline (a fetch_add).
StoreAdd(old, sum) == old + sum

\* What the store writes given the previous deadline and the computed sum.
StoreValue(old, sum) == sum

\* self.timeout_from_epoch_ns.store(elapsed + default, Release).
ResetStore(r) ==
    /\ r_pc[r] = "store"
    /\ \E out \in AddU64(r_elapsed[r], r_default[r]) :
        IF out.panic
        THEN /\ r_pc' = [r_pc EXCEPT ![r] = "panicked"]
             /\ UNCHANGED <<shared, r_elapsed, r_default, ghost, wghost>>
        ELSE /\ timeout_from_epoch_ns' = StoreValue(timeout_from_epoch_ns, out.value)
             /\ r_pc' = [r_pc EXCEPT ![r] = "idle"]
             /\ r_elapsed' = [r_elapsed EXCEPT ![r] = 0]
             /\ r_default' = [r_default EXCEPT ![r] = 0]
             /\ everReset' = TRUE
             /\ lastD' = r_default[r]
             /\ w_stored' = [w \in Waiters |-> w_stored[w] \/ InFlight(w)]
             /\ w_over' = [w \in Waiters |->
                    IF InFlight(w) /\ MaxSum(w) # None
                                   /\ Get(MaxSum(w)) > out.value
                    THEN MaxSum(w)
                    ELSE IF InFlight(w) THEN None ELSE w_over[w]]
             /\ w_credit' = [w \in Waiters |->
                    IF /\ InFlight(w)
                       /\ timeout_from_epoch_ns' # timeout_from_epoch_ns
                       /\ w_credit[w] < MaxCredit
                    THEN w_credit[w] + 1
                    ELSE w_credit[w]]
             /\ UNCHANGED <<default_timeout, defaultChanged,
                            w_nsleeps, poll>>
    /\ UNCHANGED <<now, wvars>>

\* -------------------------------------------------- set_default_timeout()
\* Variant: set_default_timeout(d) re-arms the deadline as reset() would.
DeadlineRearmedBySet(d) == now + d

\* Variant: set_default_timeout(d) pulls a deadline further than d away in
\* to d from now.
DeadlineClampedBySet(d) ==
    IF timeout_from_epoch_ns > now + d THEN now + d ELSE timeout_from_epoch_ns

\* What set_default_timeout(d) leaves in timeout_from_epoch_ns.
DeadlineAfterSet(d) == timeout_from_epoch_ns

SetDefaultTimeout(d) ==
    /\ default_timeout' = d
    /\ timeout_from_epoch_ns' = DeadlineAfterSet(d)
    /\ defaultChanged' = TRUE
    /\ UNCHANGED <<now, rvars, wvars, everReset, lastD, wghost, poll>>

\* ----------------------------------------------------------------- wait()
\* wait() is polled for the first time: timeout_duration() reads the clock.
WaitCall(w) ==
    /\ w_pc[w] \in {"idle", "done"}
    /\ LET e == U64TryFrom(now) IN
        /\ w_elapsed' = [w_elapsed EXCEPT ![w] = IF e = None THEN 0 ELSE Get(e)]
        /\ w_pc' = [w_pc EXCEPT ![w] =
                        IF e = None THEN "panicked" ELSE "check0_load"]
    /\ w_target' = [w_target EXCEPT ![w] = 0]
    /\ w_timeout' = [w_timeout EXCEPT ![w] = None]
    /\ sleep' = [sleep EXCEPT ![w] = NoSleep]
    /\ w_nsleeps' = [w_nsleeps EXCEPT ![w] = 0]
    /\ w_stored' = [w_stored EXCEPT ![w] = FALSE]
    /\ w_over' = [w_over EXCEPT ![w] = None]
    /\ w_credit' = [w_credit EXCEPT ![w] = 1]
    /\ UNCHANGED <<now, shared, rvars, ghost>>

\* The first timeout_duration() loads the target; `if let Some(timeout)`.
\* elapsed_nanos goes out of scope; the pair read is kept when it ends the wait.
WaitFirstLoad(w) ==
    /\ w_pc[w] = "check0_load"
    /\ LET t == TimeoutDuration(w_elapsed[w], timeout_from_epoch_ns) IN
        /\ w_timeout' = [w_timeout EXCEPT ![w] = t]
        /\ w_target' = [w_target EXCEPT ![w] = timeout_from_epoch_ns]
        /\ w_elapsed' = [w_elapsed EXCEPT ![w] = IF t = None THEN @ ELSE 0]
        /\ w_pc' = [w_pc EXCEPT ![w] = IF t = None THEN "done" ELSE "create"]
        /\ w_over' = [w_over EXCEPT ![w] = IF t = None THEN MaxSum(w) ELSE @]
        /\ w_credit' = [w_credit EXCEPT ![w] = IF t = None THEN 1 ELSE @]
    /\ UNCHANGED <<now, shared, rvars, sleep, ghost, w_nsleeps, w_stored>>

\* Variant: the new sleep is suspended on at once, before any recomputation.
AfterCreateSuspend == "await"

\* Where wait() goes once it has created its sleep: into the `while let`,
\* whose head recomputes timeout_duration() before anything else.
AfterCreate == "check_now"

\* self.runtime.create_sleep(timeout)
WaitCreateSleep(w) ==
    /\ w_pc[w] = "create"
    /\ sleep' = [sleep EXCEPT ![w] = Armed(Get(w_timeout[w]))]
    /\ w_timeout' = [w_timeout EXCEPT ![w] = None]
    /\ w_target' = [w_target EXCEPT ![w] = 0]
    /\ w_nsleeps' = [w_nsleeps EXCEPT ![w] = @ + 1]
    /\ w_pc' = [w_pc EXCEPT ![w] = AfterCreate]
    /\ UNCHANGED <<now, shared, rvars, w_elapsed, ghost, w_stored, w_over,
                   w_credit>>

\* Loop head, `while let Some(instant) = self.timeout_duration()`: clock read.
WaitLoopElapsed(w) ==
    /\ w_pc[w] = "check_now"
    /\ LET e == U64TryFrom(now) IN
        /\ w_elapsed' = [w_elapsed EXCEPT ![w] = IF e = None THEN 0 ELSE Get(e)]
        /\ w_pc' = [w_pc EXCEPT ![w] =
                        IF e = None THEN "panicked" ELSE "check_load"]
    /\ w_target' = [w_target EXCEPT ![w] = 0]
    /\ UNCHANGED <<now, shared, rvars, w_timeout, sleep, ghost, wghost>>

\* Loop head: load of the target; None leaves the loop and wait() returns.
WaitLoopLoad(w) ==
    /\ w_pc[w] = "check_load"
    /\ LET t == TimeoutDuration(w_elapsed[w], timeout_from_epoch_ns) IN
        /\ w_timeout' = [w_timeout EXCEPT ![w] = t]
        /\ w_target' = [w_target EXCEPT ![w] = timeout_from_epoch_ns]
        /\ w_elapsed' = [w_elapsed EXCEPT ![w] = IF t = None THEN @ ELSE 0]
        /\ w_pc' = [w_pc EXCEPT ![w] = IF t = None THEN "done" ELSE "rearm"]
        /\ sleep' = [sleep EXCEPT ![w] = IF t = None THEN NoSleep ELSE @]
        /\ w_over' = [w_over EXCEPT ![w] = IF t = None THEN MaxSum(w) ELSE @]
        /\ w_credit' = [w_credit EXCEPT ![w] = IF t = None THEN 1 ELSE @]
    /\ UNCHANGED <<now, shared, rvars, ghost, w_nsleeps, w_stored>>

\* Variant: one Sleep, kept in the Timeout, serves every wait().
SleepsSharedBy(w) == {v \in Waiters : w_pc[v] # "absent"}

\* The Sleep futures that wait() w re-targets: its own, a local of the call.
SleepsOf(w) == {w}

\* future.as_mut().project().inner.reset(instant)
WaitRearm(w) ==
    /\ w_pc[w] = "rearm"
    /\ sleep' = [v \in Waiters |->
                    IF v \in SleepsOf(w) THEN Armed(Get(w_timeout[w]))
                                         ELSE sleep[v]]
    /\ w_timeout' = [w_timeout EXCEPT ![w] = None]
    /\ w_target' = [w_target EXCEPT ![w] = 0]
    /\ w_pc' = [w_pc EXCEPT ![w] = "await"]
    /\ w_credit' = [w_credit EXCEPT ![w] = IF @ < 0 THEN @ ELSE @ - 1]
    /\ UNCHANGED <<now, shared, rvars, w_elapsed, ghost, w_nsleeps, w_stored,
                   w_over>>

\* future.as_mut().await: the task stays suspended while poll_sleep is
\* Pending and resumes, possibly late, once it is Ready.
WaitAwait(w) ==
    /\ w_pc[w] = "await"
    /\ SleepReady(w)
    /\ sleep' = [sleep EXCEPT ![w] = Fired]
    /\ w_pc' = [w_pc EXCEPT ![w] = AfterSleep]
    /\ UNCHANGED <<now, shared, rvars, w_elapsed, w_target, w_timeout,
                   ghost, wghost>>

\* Variant: abandoning a wait() marks the timeout as expired as of now.
DeadlineExpiredByDrop == now

\* What abandoning a wait() leaves in timeout_from_epoch_ns.
DeadlineAfterDrop == timeout_from_epoch_ns

\* The caller drops the future of a wait() suspended at the await (the only
\* point where the task is not running): its locals and its Sleep go with
\* it.  w_nsleeps keeps telling that the dropped wait() had created a sleep
\* until wait() is called again.
WaitDrop(w) ==
    /\ w_pc[w] = "await"
    /\ w_pc' = [w_pc EXCEPT ![w] = "idle"]
    /\ w_elapsed' = [w_elapsed EXCEPT ![w] = 0]
    /\ w_target' = [w_target EXCEPT ![w] = 0]
    /\ w_timeout' = [w_timeout EXCEPT ![w] = None]
    /\ sleep' = [sleep EXCEPT ![w] = NoSleep]
    /\ w_stored' = [w_stored EXCEPT ![w] = FALSE]
    /\ w_over' = [w_over EXCEPT ![w] = None]
    /\ w_credit' = [w_credit EXCEPT ![w] = 1]
    /\ timeout_from_epoch_ns' = DeadlineAfterDrop
    /\ UNCHANGED <<now, default_timeout, rvars, ghost, w_nsleeps>>

\* The steps of a wait() already called.
WaitStep(w) ==
    \/ WaitFirstLoad(w)
    \/ WaitCreateSleep(w)
    \/ WaitLoopElapsed(w)
    \/ WaitLoopLoad(w)
    \/ WaitRearm(w)
    \/ WaitAwait(w)

\* ------------------------------------------------------------------- spec
Next ==
    \/ Tick
    \/ \E r \in Resetters : ResetElapsed(r)
    \/ \E r \in Resetters : ResetLoadDefault(r)
    \/ \E r \in Resetters : ResetStore(r)
    \/ \E d \in Durations : SetDefaultTimeout(d)
    \/ \E w \in Waiters : WaitCall(w)
    \/ \E w \in Waiters : WaitFirstLoad(w)
    \/ \E w \in Waiters : WaitCreateSleep(w)
    \/ \E w \in Waiters : WaitLoopElapsed(w)
    \/ \E w \in Waiters : WaitLoopLoad(w)
    \/ \E w \in Waiters : WaitRearm(w)
    \/ \E w \in Waiters : WaitAwait(w)
    \/ \E w \in Waiters : WaitDrop(w)

Spec == Init /\ [][Next]_vars

\* ----------------------------------------------------------------- steps
\* wait() w returns in this step.
Returns(w) == w_pc[w] # "done" /\ w_pc'[w] = "done"
\* reset() caller r performs its store in this step.
Stores(r) == r_pc[r] = "store" /\ r_pc'[r] = "idle"
\* wait() w is abandoned in this step.
Drops(w) == w_pc[w] = "await" /\ w_pc'[w] = "idle"
\* reset() caller r loads the default in this step.
Loads(r) == r_pc[r] = "load" /\ r_pc'[r] = "store"

\* ----------------------------------------------------------------- claims
\* C1: wait() never returns early. In the step in which a wait() returns, the
\* pair it read last is (elapsed, target) with elapsed >= target, the target
\* is the value timeout_from_epoch_ns holds at that moment (the deadline most
\* recently written by new() or reset()), and the clock has reached it.
C1_WaitNeverReturnsEarly ==
    [][\A w \in Waiters :
        Returns(w) =>
            /\ w_target'[w] = timeout_from_epoch_ns
            /\ w_elapsed'[w] >= w_target'[w]
            /\ now >= w_elapsed'[w]]_vars

\* A wait() that slept, saw a reset() store while in flight, and returned.
C1_Witness ==
    \E w \in Waiters :
        /\ w_pc[w] = "done"
        /\ w_nsleeps[w] = 1
        /\ w_stored[w]
        /\ w_elapsed[w] >= w_target[w]
        /\ w_target[w] > 1

\* C2: reset extends the deadline. A reset() that read the clock at T and
\* loaded the default D stores T + D, and a wait() that was in flight when a
\* reset() stored does not return before the deadline that the last such
\* reset() left in timeout_from_epoch_ns.
C2_ResetExtendsDeadline ==
    [][/\ \A r \in Resetters :
            Stores(r) => timeout_from_epoch_ns' = r_elapsed[r] + r_default[r]
       /\ \A w \in Waiters :
            (Returns(w) /\ w_stored[w]) => now >= timeout_from_epoch_ns]_vars

\* A wait() returned exactly at T + D of a reset() stored while it was in
\* flight, later than the deadline new() had armed.
C2_Witness ==
    \E w \in Waiters :
        /\ w_pc[w] = "done"
        /\ w_stored[w]
        /\ ~defaultChanged
        /\ w_target[w] > default_timeout
        /\ now = w_target[w]

\* C3: concurrent reset race safety. With the default left alone, a wait()
\* never returns before the largest elapsed + default sum that any reset()
\* stored while it was in flight, and no reset() panics.
C3_NeverBeforeLargestStored ==
    /\ [][\A w \in Waiters :
            (Returns(w) /\ ~defaultChanged /\ MaxSum(w) # None) =>
                now >= Get(MaxSum(w))]_vars
    /\ [](\A r \in Resetters : r_pc[r] # "panicked")

\* What reset()'s plain store gives instead (last write wins): a wait()
\* never returns before the deadline stored last before its final check, and
\* a wait() in flight is never stuck: it has a step to take, or it is
\* suspended on an armed sleep.
LastWriteWins ==
    /\ [][\A w \in Waiters :
            Returns(w) =>
                /\ now >= timeout_from_epoch_ns
                /\ w_target'[w] = timeout_from_epoch_ns]_vars
    /\ [](\A w \in Waiters :
            InFlight(w) =>
                \/ w_pc[w] \in {"check0_load", "create", "check_now",
                                "check_load", "rearm"}
                \/ sleep[w].state = "armed")

\* Two overlapping reset() calls stored out of order while a wait() was in
\* flight, and the wait() returned at the last stored deadline, before the
\* largest one.
StaleOverwriteSeen ==
    \E w \in Waiters :
        /\ w_pc[w] = "done"
        /\ ~defaultChanged
        /\ w_over[w] # None
        /\ Get(w_over[w]) > w_target[w]
        /\ now < Get(w_over[w])

\* C4: keep-alive across sharers. With a fixed default D, when a wait()
\* returns at t, no reset() that stored while it was in flight had read the
\* clock in (t-D, t]: the latest such reading, MaxSum - D, is at most t - D.
C4_NoResetInLastWindow ==
    [][\A w \in Waiters :
        (Returns(w) /\ ~defaultChanged /\ MaxSum(w) # None) =>
            Get(MaxSum(w)) - default_timeout <= now - default_timeout]_vars

\* What holds instead: with a fixed default D, when a wait() returns at t,
\* the reset() whose store was the last before the final check had not read
\* the clock in (t-D, t].
LastResetReading == timeout_from_epoch_ns - lastD
LastResetNotInLastWindow ==
    [][\A w \in Waiters :
        (Returns(w) /\ ~defaultChanged /\ w_stored[w]) =>
            /\ lastD = default_timeout
            /\ LastResetReading <= now - default_timeout]_vars

\* D = 2 ticks, kept alive by a reset() at tick 1 while the wait() was in
\* flight: the wait() returned at tick 3.
KeepAliveSeen ==
    \E w \in Waiters :
        /\ w_pc[w] = "done"
        /\ ~defaultChanged
        /\ default_timeout = 2
        /\ w_stored[w]
        /\ w_target[w] = 3
        /\ now = 3

\* C5: expiry lower bound. While no reset() has stored, a wait() that has
\* returned did so no earlier than the default handed to new() (lastD, as
\* long as nothing was stored), whenever it was started.
C5_ExpiryLowerBound ==
    \A w \in Waiters :
        (w_pc[w] = "done" /\ ~everReset) =>
            /\ now >= lastD
            /\ w_target[w] = lastD

\* A wait() on a never-reset Timeout slept and returned exactly at D.
C5_Witness ==
    \E w \in Waiters :
        /\ w_pc[w] = "done"
        /\ ~everReset
        /\ w_nsleeps[w] = 1
        /\ now = lastD

\* C6: liveness of wait. Under the fairness of SpecLive every wait() that
\* was called eventually returns, however often reset() is called.
C6_WaitAlwaysCompletes ==
    \A w \in Waiters : InFlight(w) ~> (w_pc[w] = "done")

\* C6, for finitely many reset() calls: under the fairness of SpecLive, if
\* from some moment on no reset() is in progress, every wait() that was
\* called eventually returns.
C6_WaitCompletesOnceResetsStop ==
    (<>[](\A r \in Resetters : r_pc[r] = "idle")) =>
        \A w \in Waiters : InFlight(w) ~> (w_pc[w] = "done")

\* A wait() that slept through a reset() has returned, and no reset() is in
\* progress.
C6_Witness ==
    \E w \in Waiters :
        /\ w_pc[w] = "done"
        /\ w_nsleeps[w] = 1
        /\ w_stored[w]
        /\ \A r \in Resetters : r_pc[r] = "idle"
        /\ now = MaxTime

\* C22: liveness once activity stops. Under the fairness of SpecLive, if
\* from some moment on no reset() is in progress and the default is no longer
\* changed, every wait() that was called eventually returns; and a wait()
\* returns only once the clock has reached the deadline stored at its return
\* (the final one when the calls have ended), having left each sleep it was
\* suspended on no earlier than that sleep's own target.
C22_ReturnsOnceActivityStops ==
    /\ (/\ <>[](\A r \in Resetters : r_pc[r] = "idle")
        /\ <>[][default_timeout' = default_timeout]_vars) =>
            \A w \in Waiters : [](InFlight(w) => <>(w_pc[w] = "done"))
    /\ [][\A w \in Waiters :
            /\ Returns(w) => now >= timeout_from_epoch_ns
            /\ (w_pc[w] = "await" /\ w_pc'[w] # "await") =>
                    now >= sleep[w].at]_vars

\* A reset() pushed the deadline past the target of the sleep the wait() was
\* suspended on; no reset() is in progress any more, and the wait() has
\* returned at that final deadline.
C22_Witness ==
    \E w \in Waiters :
        /\ w_pc[w] = "done"
        /\ w_nsleeps[w] = 1
        /\ w_stored[w]
        /\ \A r \in Resetters : r_pc[r] = "idle"
        /\ w_target[w] = timeout_from_epoch_ns
        /\ now = timeout_from_epoch_ns
        /\ everReset

\* C7: set_default_timeout() is not retroactive. A step that changes
\* default_timeout leaves timeout_from_epoch_ns alone; only a reset()'s store
\* changes the deadline; a reset() loads the default in force at its load and
\* stores its clock reading plus that default.
C7_SetDefaultNotRetroactive ==
    [][/\ default_timeout' # default_timeout =>
            timeout_from_epoch_ns' = timeout_from_epoch_ns
       /\ timeout_from_epoch_ns' # timeout_from_epoch_ns =>
            \E r \in Resetters : Stores(r)
       /\ \A r \in Resetters :
            /\ Loads(r) => r_default'[r] = default_timeout
            /\ Stores(r) =>
                timeout_from_epoch_ns' = r_elapsed[r] + r_default[r]]_vars

\* set_default_timeout(D2) was called with D2 unlike the default behind the
\* armed deadline, which still stands; a reset() that loaded D2 is about to
\* store.
C7_Witness ==
    /\ defaultChanged
    /\ default_timeout # lastD
    /\ ~everReset
    /\ timeout_from_epoch_ns = lastD
    /\ \E r \in Resetters : r_pc[r] = "store" /\ r_default[r] = default_timeout

\* C8: a shorter default does not cut a pending sleep short. The sleep is
\* armed for no earlier than the deadline d1 that wait() had loaded, and a
\* wait() suspended on it resumes only once the clock has reached the
\* sleep's own deadline, wherever reset() has moved the stored one (a wait()
\* abandoned while suspended does not resume at all).
C8_PendingSleepRunsToItsDeadline ==
    [][\A w \in Waiters :
        /\ (w_pc[w] = "rearm" /\ w_pc'[w] = "await") =>
                sleep'[w].at >= w_target[w]
        /\ (w_pc[w] = "await" /\ w_pc'[w] # "await" /\ ~Drops(w)) =>
                now >= sleep[w].at]_vars

\* The default was shortened and a reset() with it moved the stored deadline
\* to d2, which the clock has passed, while the wait() is still suspended on
\* the sleep armed for the earlier, later deadline.
C8_Witness ==
    \E w \in Waiters :
        /\ w_pc[w] = "await"
        /\ defaultChanged
        /\ w_stored[w]
        /\ lastD = 1
        /\ timeout_from_epoch_ns < sleep[w].at
        /\ now >= timeout_from_epoch_ns
        /\ now < sleep[w].at

\* C9: immediate return on an elapsed deadline. When the first
\* timeout_duration() of a wait() reads elapsed >= target, that very step
\* returns: no sleep was created and the wait() never reached the await.
C9_ImmediateReturn ==
    [][\A w \in Waiters :
        (/\ w_pc[w] = "check0_load"
         /\ w_pc'[w] # "check0_load"
         /\ w_elapsed[w] >= timeout_from_epoch_ns) =>
            /\ w_pc'[w] = "done"
            /\ w_nsleeps'[w] = 0
            /\ sleep'[w] = NoSleep]_vars

\* A wait() called exactly at the deadline returned without a sleep.
C9_Witness ==
    \E w \in Waiters :
        /\ w_pc[w] = "done"
        /\ w_nsleeps[w] = 0
        /\ sleep[w] = NoSleep
        /\ w_elapsed[w] = w_target[w]

\* C10: reset() is an unconditional re-arm. Its store writes the clock
\* reading plus the loaded default whatever the deadline was, and with a
\* default at least as long as the one behind the stored deadline it never
\* moves the deadline earlier.
C10_UnconditionalRearm ==
    [][\A r \in Resetters :
        Stores(r) =>
            /\ timeout_from_epoch_ns' = r_elapsed[r] + r_default[r]
            /\ r_default[r] >= lastD =>
                    timeout_from_epoch_ns' >= timeout_from_epoch_ns]_vars

\* What holds instead: the store is unconditional, and it moves the deadline
\* later or leaves it equal when the default is at least as long and the
\* clock reading at least as late as those behind the stored deadline.
RearmMonotoneWhenNotStale ==
    [][\A r \in Resetters :
        Stores(r) =>
            /\ timeout_from_epoch_ns' = r_elapsed[r] + r_default[r]
            /\ (r_default[r] >= lastD /\ r_elapsed[r] >= LastResetReading) =>
                    timeout_from_epoch_ns' >= timeout_from_epoch_ns]_vars

\* C11: deadline monotonicity. No step ever moves timeout_from_epoch_ns
\* earlier, under any interleaving of reset() and set_default_timeout().
C11_DeadlineNeverDecreases ==
    [][timeout_from_epoch_ns' >= timeout_from_epoch_ns]_vars

\* C11, last write wins: the deadline moves earlier only in a reset() store,
\* and only when that reset() loaded a shorter default, or read the clock
\* earlier, than the write it replaces.
C11_DecreasesOnlyWhenShorterOrStale ==
    [][timeout_from_epoch_ns' < timeout_from_epoch_ns =>
        \E r \in Resetters :
            /\ Stores(r)
            /\ \/ r_default[r] < lastD
               \/ r_elapsed[r] < LastResetReading]_vars

\* After the default was shortened, a reset() store replaced a later deadline
\* written during the same wait() by an earlier one.
C11_Witness ==
    \E w \in Waiters :
        /\ InFlight(w)
        /\ defaultChanged
        /\ lastD < MaxDefault
        /\ w_over[w] # None
        /\ Get(w_over[w]) > timeout_from_epoch_ns

\* C12: no wrapped deadline. For every accepted default and every elapsed
\* time, a reset() that reaches its store either panics or writes exactly
\* its clock reading plus the default it loaded, and it never starts from a
\* clock reading that does not fit the word.
C12_StoresExactSumOrPanics ==
    [][\A r \in Resetters :
        /\ (r_pc[r] = "store" /\ r_pc'[r] # "store") =>
                \/ r_pc'[r] = "panicked"
                \/ timeout_from_epoch_ns' = r_elapsed[r] + r_default[r]
        /\ (r_pc[r] = "idle" /\ r_pc'[r] = "load") =>
                r_elapsed'[r] = now]_vars

\* C13: wait() cannot fail. No step of wait() panics, from any state the
\* Timeout can reach.
C13_WaitNeverPanics ==
    \A w \in Waiters : w_pc[w] # "panicked"

\* C14: cancellation safety. No step of a wait(), its abandonment included,
\* changes timeout_from_epoch_ns or default_timeout (the epoch is not a
\* variable: nothing can write it), and abandoning a wait() leaves the
\* caller exactly where a caller that never ran wait() is: no sleep, no
\* locals.
C14_WaitLeavesSharedAlone ==
    [][/\ wvars' # wvars => shared' = shared
       /\ \A w \in Waiters :
            Drops(w) =>
                /\ shared' = shared
                /\ sleep'[w] = NoSleep
                /\ w_elapsed'[w] = 0
                /\ w_target'[w] = 0
                /\ w_timeout'[w] = None]_vars

\* A wait() that had created its sleep and seen a reset() store was
\* abandoned; the deadline that reset() stored stands.
C14_Witness ==
    \E w \in Waiters :
        /\ w_pc[w] = "idle"
        /\ w_nsleeps[w] = 1
        /\ everReset
        /\ timeout_from_epoch_ns > now

\* C15: several concurrent wait()s are safe. A step of one wait() changes
\* neither the shared fields nor anything of another wait() (its sleep
\* included); each wait() returns only on its own observation of
\* elapsed >= target, the target being the stored deadline; and a wait() in
\* flight is never stuck: it has a step to take or is suspended on its own
\* armed sleep.
C15_ConcurrentWaitsIndependent ==
    /\ [][\A w \in Waiters :
            /\ w_pc'[w] # w_pc[w] =>
                    /\ shared' = shared
                    /\ \A v \in Waiters \ {w} :
                            /\ w_pc'[v] = w_pc[v]
                            /\ sleep'[v] = sleep[v]
                            /\ w_elapsed'[v] = w_elapsed[v]
                            /\ w_target'[v] = w_target[v]
                            /\ w_timeout'[v] = w_timeout[v]
            /\ Returns(w) =>
                    /\ w_target'[w] = timeout_from_epoch_ns
                    /\ w_elapsed'[w] >= w_target'[w]
                    /\ now >= w_elapsed'[w]]_vars
    /\ [](\A w \in Waiters :
            InFlight(w) =>
                \/ w_pc[w] \in {"check0_load", "create", "check_now",
                                "check_load", "rearm"}
                \/ w_pc[w] = "await" /\ sleep[w].state = "armed")

\* Two wait()s ran at once, each created its own sleep, and they returned
\* on different deadlines.
C15_Witness ==
    /\ \A w \in Waiters : w_pc[w] = "done" /\ w_nsleeps[w] = 1
    /\ w_target["w1"] # w_target["w2"]

\* A Wrapper was polled in this step.
Polled == poll'.seq # poll.seq
\* reset() was entered in this step.
ResetEntered ==
    \E r \in Resetters : r_pc[r] = "idle" /\ r_pc'[r] \in {"load", "panicked"}

\* C16: read wrappers reset only on real progress. A poll_read of either
\* implementation enters reset() exactly once when the inner read was
\* Ready(Ok) and transferred at least one byte in that call, and not at all
\* otherwise, whatever the buffer held before.
C16_ReadResetsOnlyOnProgress ==
    [][(Polled /\ poll'.op \in {"tokio_read", "futures_read"}) =>
        /\ poll'.resets = IF poll'.res = "ok" /\ poll'.n > 0 THEN 1 ELSE 0
        /\ ResetEntered <=> poll'.resets = 1]_vars

\* What holds for the futures-io implementation, and for the tokio one when
\* the buffer is handed in empty.
ReadResetsOnProgressIntoEmptyBuffer ==
    [][(Polled /\ poll'.op \in {"tokio_read", "futures_read"}
               /\ poll'.filled = 0) =>
        /\ poll'.resets = IF poll'.res = "ok" /\ poll'.n > 0 THEN 1 ELSE 0
        /\ ResetEntered <=> poll'.resets = 1]_vars

\* C17: write wrappers. poll_write and poll_write_vectored enter reset()
\* exactly once when the inner write was Ready(Ok(n)) with n > 0 and not at
\* all otherwise; poll_flush and poll_shutdown/poll_close never enter
\* reset() and leave the deadline as it was.
C17_WriteResetsFlushNever ==
    [][/\ (Polled /\ poll'.op \in {"write", "write_vectored"}) =>
            /\ poll'.resets = IF poll'.res = "ok" /\ poll'.n > 0 THEN 1 ELSE 0
            /\ ResetEntered <=> poll'.resets = 1
       /\ (Polled /\ poll'.op \in {"flush", "shutdown"}) =>
            /\ poll'.resets = 0
            /\ ~ResetEntered
            /\ UNCHANGED <<shared, rvars>>]_vars

\* A write of some bytes has entered reset() while a wait() is suspended.
C17_Witness ==
    /\ poll.op \in {"write", "write_vectored"}
    /\ poll.res = "ok"
    /\ poll.n > 0
    /\ poll.resets = 1
    /\ r_pc["r1"] = "load"
    /\ w_pc["w1"] = "await"

\* C18: the stream wrapper resets only on stream advancement. A poll_next
\* enters reset() exactly once when the inner stream produced an item and
\* not at all when it is Pending or at its end.
C18_StreamResetsOnlyOnItem ==
    [][(Polled /\ poll'.op = "next") =>
        /\ poll'.resets = IF poll'.res = "item" THEN 1 ELSE 0
        /\ ResetEntered <=> poll'.resets = 1]_vars

\* What holds: poll_next enters reset() exactly once whenever the inner
\* stream is Ready, and not when it is Pending.
StreamResetsWhenReady ==
    [][(Polled /\ poll'.op = "next") =>
        /\ poll'.resets = IF poll'.res # "pending" THEN 1 ELSE 0
        /\ ResetEntered <=> poll'.resets = 1]_vars

\* C19: one sleep per wait. A wait() calls create_sleep() at most once;
\* only that step creates a sleep; every re-targeting is Sleep::reset on
\* the handle that exists, which stays in place until wait() returns or is
\* abandoned.
C19_OneSleepPerWait ==
    /\ [](\A w \in Waiters : w_nsleeps[w] <= 1)
    /\ [][\A w \in Waiters :
            /\ w_nsleeps'[w] > w_nsleeps[w] => w_pc[w] = "create"
            /\ (w_pc[w] = "rearm" /\ w_pc'[w] = "await") =>
                    /\ sleep[w].state # "none"
                    /\ sleep'[w].state = "armed"
                    /\ w_nsleeps'[w] = w_nsleeps[w]
            /\ (sleep[w].state # "none" /\ sleep'[w].state = "none") =>
                    Returns(w) \/ Drops(w)]_vars

\* A wait() with its one sleep, which it re-armed and which has completed,
\* is about to re-arm it again after a reset() store.
C19_Witness ==
    \E w \in Waiters :
        /\ w_pc[w] = "rearm"
        /\ sleep[w].state = "fired"
        /\ w_nsleeps[w] = 1
        /\ w_stored[w]

\* C20: no busy loop. Each re-arm uses the strictly positive duration
\* target - elapsed of the check before it; a wait() re-arms (and so
\* suspends) at most once more than reset() stores changed the deadline
\* while it was pending; and wait() waits for nothing but its sleep: at
\* every other point it has a step it can take.
C20_NoBusyLoop ==
    /\ [](\A w \in Waiters : w_credit[w] >= 0)
    /\ [][\A w \in Waiters :
            /\ (w_pc[w] = "check_load" /\ w_pc'[w] = "rearm") =>
                    /\ timeout_from_epoch_ns - w_elapsed[w] > 0
                    /\ w_timeout'[w] =
                            Some(timeout_from_epoch_ns - w_elapsed[w])
            /\ (w_pc[w] = "rearm" /\ w_pc'[w] = "await") =>
                    /\ Get(w_timeout[w]) > 0
                    /\ sleep'[w].at = now + Get(w_timeout[w])]_vars
    /\ [](\A w \in Waiters :
            w_pc[w] \in {"check0_load", "create", "check_now", "check_load",
                         "rearm"} => ENABLED WaitStep(w))

\* A wait() whose sleep has completed once is about to re-arm it a second
\* time, a reset() store having moved the deadline meanwhile.
C20_Witness ==
    \E w \in Waiters :
        /\ w_pc[w] = "rearm"
        /\ sleep[w].state = "fired"
        /\ w_credit[w] = 1
        /\ Get(w_timeout[w]) > 0

\* C21: wait() follows the specified loop order. Sleep::reset is called only
\* on a sleep that has completed, and a wait() that created a sleep returns
\* only after it has suspended on it and seen it complete.
C21_SuspendsBeforeRecompute ==
    [][\A w \in Waiters :
        /\ (w_pc[w] = "rearm" /\ w_pc'[w] = "await") =>
                sleep[w].state = "fired"
        /\ (Returns(w) /\ w_nsleeps[w] = 1) =>
                sleep[w].state = "fired"]_vars

\* C21, as the code orders the loop: after creating the sleep wait() goes to
\* the loop head, which recomputes timeout_duration() before every
\* suspension, the first included; each suspension directly follows a
\* Sleep::reset of the one sleep, pending or completed, made with
\* remaining > 0; and a wait() that created a sleep returns at a
\* recomputation that finds nothing remaining, whether it has suspended or
\* not.
C21_RecomputesBeforeEachSuspension ==
    [][\A w \in Waiters :
        /\ w_pc[w] = "create" => w_pc'[w] \in {"create", "check_now"}
        /\ (w_pc[w] # "await" /\ w_pc'[w] = "await") =>
                /\ w_pc[w] = "rearm"
                /\ Get(w_timeout[w]) > 0
                /\ sleep'[w].state = "armed"
        /\ (w_pc[w] # "rearm" /\ w_pc'[w] = "rearm") =>
                /\ w_pc[w] = "check_load"
                /\ sleep[w].state \in {"armed", "fired"}
        /\ (Returns(w) /\ w_nsleeps[w] = 1) =>
                /\ w_pc[w] = "check_load"
                /\ w_elapsed[w] >= timeout_from_epoch_ns]_vars

\* wait() is about to call Sleep::reset on the sleep it has just created,
\* which is pending and has not been suspended on.
C21_Witness ==
    \E w \in Waiters :
        /\ w_pc[w] = "rearm"
        /\ w_nsleeps[w] = 1
        /\ sleep[w].state = "armed"
        /\ now < sleep[w].at

\* C23: deadline provenance and bound. The stored deadline is the default
\* handed to new() until a reset() has stored, and from then on e + d with e
\* the clock reading a reset() took on entry (so no later than now) and d the
\* value default_timeout held when that reset() loaded it (lastD keeps it).
\* Hence it never lies further ahead than now + d, d being a default that was
\* set.
C23_DeadlineProvenance ==
    /\ [](/\ lastD \in Durations
          /\ ~everReset => timeout_from_epoch_ns = lastD
          /\ everReset => LastResetReading \in 0..now
          /\ timeout_from_epoch_ns <= now + lastD
          /\ \A r \in Resetters :
                /\ r_pc[r] \in {"load", "store"} => r_elapsed[r] \in 0..now
                /\ r_pc[r] = "store" => r_default[r] \in Durations)
    /\ [][/\ \A r \in Resetters :
                /\ (r_pc[r] = "idle" /\ r_pc'[r] = "load") =>
                        r_elapsed'[r] = now
                /\ Loads(r) =>
                        /\ r_default'[r] = default_timeout
                        /\ r_elapsed'[r] = r_elapsed[r]
                /\ Stores(r) =>
                        /\ timeout_from_epoch_ns' = r_elapsed[r] + r_default[r]
                        /\ lastD' = r_default[r]
          /\ (timeout_from_epoch_ns' # timeout_from_epoch_ns \/ lastD' # lastD) =>
                \E r \in Resetters : Stores(r)]_vars

\* A reset() raced with set_default_timeout(): the stored deadline is its
\* clock reading plus the default it had loaded, which is no longer the
\* default in force.
C23_Witness ==
    /\ everReset
    /\ defaultChanged
    /\ lastD # default_timeout
    /\ LastResetReading > 0
    /\ timeout_from_epoch_ns = LastResetReading + lastD
    /\ \A r \in Resetters : r_pc[r] = "idle"

\* --------------------------------------------------------- unbounded time
\* The clock itself never stops.  Once `now` has reached MaxTime the model
\* keeps it there and moves the epoch instead: every instant held anywhere
\* is lowered by one tick.  The code only compares instants and subtracts
\* them, so this is the same run seen from a later origin.  An instant that
\* would fall below the origin is a deadline or sleep target long past (held
\* at the origin: it compares as passed either way); a clock reading still to
\* be used is never that old, which bounds how long a thread may sit between
\* reading the clock and using the reading.
Dec(x) == IF x > 0 THEN x - 1 ELSE 0

ClockShift ==
    /\ now = MaxTime
    /\ \A r \in Resetters : r_pc[r] \in {"load", "store"} => r_elapsed[r] > 0
    /\ \A w \in Waiters :
            w_pc[w] \in {"check0_load", "check_load"} => w_elapsed[w] > 0
    /\ timeout_from_epoch_ns' = Dec(timeout_from_epoch_ns)
    /\ r_elapsed' = [r \in Resetters |-> Dec(r_elapsed[r])]
    /\ w_elapsed' = [w \in Waiters |-> Dec(w_elapsed[w])]
    /\ w_target' = [w \in Waiters |-> Dec(w_target[w])]
    /\ sleep' = [w \in Waiters |-> [sleep[w] EXCEPT !.at = Dec(@)]]
    /\ w_over' = [w \in Waiters |-> {Dec(x) : x \in w_over[w]}]
    /\ UNCHANGED <<now, default_timeout, r_pc, r_default, w_pc, w_timeout,
                   ghost, w_nsleeps, w_stored, w_credit>>

\* One caller of reset(), free to call it again and again for ever.
NextLive ==
    \/ Tick
    \/ ClockShift
    \/ ResetElapsed("r1")
    \/ ResetLoadDefault("r1")
    \/ ResetStore("r1")
    \/ \E d \in Durations : SetDefaultTimeout(d)
    \/ \E w \in Waiters : WaitCall(w)
    \/ \E w \in Waiters : WaitStep(w)

\* The clock advances, the executor runs a wait() that can take a step, the
\* sleep facility wakes it, and a reset() once called runs to its end.
\* Nothing obliges anyone to call reset(), set_default_timeout() or wait().
Fairness ==
    /\ WF_vars(Tick \/ ClockShift)
    /\ \A w \in Waiters : WF_vars(WaitStep(w))
    /\ WF_vars(ResetLoadDefault("r1") \/ ResetStore("r1"))

SpecLive == Init /\ [][NextLive]_vars /\ Fairness

\* ------------------------------------------------------- the edge of u64
\* new() and set_default_timeout() accept every nanosecond count that fits
\* the word, and the process may run arbitrarily long: defaults near the top
\* of the word, and a clock that leaps to the top of the word and past it.
WideDurations == {1, U64Max}
LeapTimes == {U64Max, U64Max + 1}

Leap ==
    /\ \E t \in LeapTimes : now < t /\ now' = t
    /\ UNCHANGED <<shared, rvars, wvars, ghost, wghost>>

NextOverflow ==
    \/ Tick
    \/ Leap
    \/ ResetElapsed("r1")
    \/ ResetLoadDefault("r1")
    \/ ResetStore("r1")
    \/ \E d \in WideDurations : SetDefaultTimeout(d)
    \/ \E w \in Waiters : WaitCall(w)
    \/ \E w \in Waiters : WaitStep(w)

InitOverflow == InitWith(WideDurations, {"w1"})

SpecOverflow == InitOverflow /\ [][NextOverflow]_vars

\* ---------------------------------------------------------------- Wrapper
\* What the wrapped object can answer to a poll.  n is the number of bytes
\* this call transferred; only Ready(Ok) transfers any.
IoResults == {"pending", "err", "ok"}
StreamResults == {"pending", "item", "end"}
Bytes == 0..MaxBytes

\* One poll of a Wrapper by task r: the inner object is polled and answers
\* res, having transferred n bytes (the read buffer held `filled` bytes
\* before); when `resets`, the match arm that calls timeout.reset() runs and
\* reset() is entered once, its load and store following as further steps.
WrapperPoll(r, op, res, filled, n, resets) ==
    /\ r_pc[r] = "idle"
    /\ poll' = [op |-> op, res |-> res, filled |-> filled, n |-> n,
                resets |-> IF resets THEN 1 ELSE 0, seq |-> 1 - poll.seq]
    /\ IF resets THEN ResetBegin(r) ELSE UNCHANGED <<r_pc, r_elapsed>>
    /\ UNCHANGED <<now, shared, r_default, wvars, everReset, defaultChanged,
                   lastD, wghost>>

\* tokio AsyncRead::poll_read: `Poll::Ready(Ok(())) if !buf.filled().is_empty()`.
\* buf.filled() is everything filled so far: what the buffer held on entry
\* and what this call added.
TokioReadResets(res, filled, n) == res = "ok" /\ filled + n > 0

TokioPollRead(r) ==
    \E res \in IoResults, filled \in Bytes, n \in Bytes :
        /\ res # "ok" => n = 0
        /\ WrapperPoll(r, "tokio_read", res, filled, n,
                       TokioReadResets(res, filled, n))

\* futures-io AsyncRead::poll_read: `Poll::Ready(Ok(read)) if read > 0`.
FuturesReadResets(res, n) == res = "ok" /\ n > 0

FuturesPollRead(r) ==
    \E res \in IoResults, n \in Bytes :
        /\ res # "ok" => n = 0
        /\ WrapperPoll(r, "futures_read", res, 0, n, FuturesReadResets(res, n))

\* Variant: every completed write resets.
WriteResetsOnReady(res, n) == res = "ok"

\* poll_write and poll_write_vectored, tokio and futures-io alike:
\* `Poll::Ready(Ok(written)) if written > 0`.
WriteResets(res, n) == res = "ok" /\ n > 0

PollWrite(r) ==
    \E res \in IoResults, n \in Bytes :
        /\ res # "ok" => n = 0
        /\ WrapperPoll(r, "write", res, 0, n, WriteResets(res, n))

PollWriteVectored(r) ==
    \E res \in IoResults, n \in Bytes :
        /\ res # "ok" => n = 0
        /\ WrapperPoll(r, "write_vectored", res, 0, n, WriteResets(res, n))

\* poll_flush, poll_shutdown (tokio) and poll_close (futures-io) hand the
\* inner answer through.
FlushResets(res) == FALSE

PollFlush(r) ==
    \E res \in IoResults :
        /\ r_pc[r] = "idle"
        /\ WrapperPoll(r, "flush", res, 0, 0, FlushResets(res))

PollShutdown(r) ==
    \E res \in IoResults :
        /\ r_pc[r] = "idle"
        /\ WrapperPoll(r, "shutdown", res, 0, 0, FlushResets(res))

\* Stream::poll_next: `Poll::Ready(x)` resets, whatever x is.
StreamResets(res) == res # "pending"

StreamPollNext(r) ==
    \E res \in StreamResults :
        /\ r_pc[r] = "idle"
        /\ WrapperPoll(r, "next", res, 0, 0, StreamResets(res))

\* A task drives wrapped objects that share the Timeout while another task
\* waits on it.
NextWrapper ==
    \/ Tick
    \/ TokioPollRead("r1")
    \/ FuturesPollRead("r1")
    \/ PollWrite("r1")
    \/ PollWriteVectored("r1")
    \/ PollFlush("r1")
    \/ PollShutdown("r1")
    \/ StreamPollNext("r1")
    \/ ResetLoadDefault("r1")
    \/ ResetStore("r1")
    \/ \E w \in Waiters : WaitCall(w)
    \/ \E w \in Waiters : WaitStep(w)

SpecWrapper == Init /\ [][NextWrapper]_vars

\* ------------------------------------------------ several wait()s at once
\* Two tasks wait on the same Timeout while a third calls reset().
InitMulti == InitWith(Durations, Waiters)

NextMulti ==
    \/ Tick
    \/ ResetElapsed("r1")
    \/ ResetLoadDefault("r1")
    \/ ResetStore("r1")
    \/ \E w \in Waiters : WaitCall(w)
    \/ \E w \in Waiters : WaitStep(w)

SpecMulti == InitMulti /\ [][NextMulti]_vars

TypeOK ==
    /\ now \in 0..MaxTime
    /\ timeout_from_epoch_ns \in 0..U64Max
    /\ default_timeout \in Durations
=============================================================================
